---- MODULE Spec2Model ----
(***************************************************************************)
(* A model of the two scripts of the repository.                           *)
(*                                                                         *)
(*   create_static.py  builds the text of a nested template chain in the   *)
(*                     variable init and prints it with the suffix sink;   *)
(*   temp.py           draws two random 3x3 matrices A and B, defines two  *)
(*                     literal 3x3 matrices a and b, and prints A, B,      *)
(*                     A @ B and a @ b.                                    *)
(*                                                                         *)
(* Each script is a straight line of statements; pc names the line of the  *)
(* statement that runs next.  A Python str is a sequence of one-character  *)
(* strings, a matrix is a sequence of rows.  stdout holds what print has   *)
(* written, one entry per call of print.  A name that is not bound yet     *)
(* holds Unbound.                                                          *)
(***************************************************************************)
EXTENDS Integers, Sequences, FiniteSets

VARIABLES pc, NUM, init, A, B, a, b, stdout, runs

vars == <<pc, NUM, init, A, B, a, b, stdout, runs>>

Unbound == <<>>

(***************************************************************************)
(* Bounds of the model.                                                    *)
(***************************************************************************)
\* NUM ranges over 0..MaxNum and the value the source gives it.
MaxNum == 20
\* np.random.rand is sampled from the matrices Sample(0) .. Sample(MaxSeed).
MaxSeed == 3
\* temp.py is run at most MaxRuns times in a row.
MaxRuns == 2

(***************************************************************************)
(* create_static.py: the constants.                                        *)
(***************************************************************************)
NUM_DEFAULT == 200

SOURCE == <<"C", "o", "n", "s", "t", "M", "o", "d", "u", "l", "e">>

SINK == <<"S", "i", "n", "k", "M", "o", "d", "u", "l", "e">>

MID == <<"A", "m", "p", "l", "i", "t", "u", "d", "e", "S", "c", "a", "l", "e">>

\* The literal of line 33.
SinkSuffix == <<"s", "i", "n", "k", ";">>

\* The values the model substitutes for NUM.
NumValues == (0..MaxNum) \cup {NUM_DEFAULT}

(***************************************************************************)
(* Python's str operations.                                                *)
(***************************************************************************)
\* s * n: n copies of s, the empty str when n <= 0.
Repeat(s, n) == [i \in 1..(n * Len(s)) |-> s[((i - 1) % Len(s)) + 1]]

\* print(x): one more entry on standard output.  An entry is the text (or the
\* matrix) handed to print; the line terminator print adds after it is what
\* separates the entries and is not held in them.
print(out, x) == Append(out, x)

(***************************************************************************)
(* create_static.py: the statements.                                       *)
(***************************************************************************)
tempVars == <<A, B, a, b, runs>>

\* Lines 6-15 have run: the constants are bound, init is not.
Init ==
    /\ pc = "l19"
    /\ NUM \in NumValues
    /\ init = Unbound
    /\ stdout = <<>>
    /\ A = Unbound /\ B = Unbound /\ a = Unbound /\ b = Unbound
    /\ runs = <<>>

\* init = f"{SINK}<"
CS_Line19 ==
    /\ pc = "l19"
    /\ init' = SINK \o <<"<">>
    /\ pc' = "l23"
    /\ UNCHANGED <<NUM, stdout, tempVars>>

\* Mutant of line 23: the repetition binds to "<" alone, f"{MID}" + "<" * NUM.
CS_Line23_RepeatsBracketOnly ==
    /\ pc = "l23"
    /\ init' = init \o MID \o Repeat(<<"<">>, NUM)
    /\ pc' = "l27"
    /\ UNCHANGED <<NUM, stdout, tempVars>>

\* Mutant of line 23: one repetition too many, f"{MID}<" * (NUM + 1).
CS_Line23_OneMore ==
    /\ pc = "l23"
    /\ init' = init \o Repeat(MID \o <<"<">>, NUM + 1)
    /\ pc' = "l27"
    /\ UNCHANGED <<NUM, stdout, tempVars>>

\* init += f"{MID}<" * NUM
CS_Line23 ==
    /\ pc = "l23"
    /\ init' = init \o Repeat(MID \o <<"<">>, NUM)
    /\ pc' = "l27"
    /\ UNCHANGED <<NUM, stdout, tempVars>>

\* Mutant of line 27: the source is put in front, init = SOURCE + init.
CS_Line27_Prepends ==
    /\ pc = "l27"
    /\ init' = SOURCE \o init
    /\ pc' = "l31"
    /\ UNCHANGED <<NUM, stdout, tempVars>>

\* init += SOURCE
CS_Line27 ==
    /\ pc = "l27"
    /\ init' = init \o SOURCE
    /\ pc' = "l31"
    /\ UNCHANGED <<NUM, stdout, tempVars>>

\* Mutant of line 31: one bracket too few, ">" * NUM.
CS_Line31_OneLess ==
    /\ pc = "l31"
    /\ init' = init \o Repeat(<<">">>, NUM)
    /\ pc' = "l33"
    /\ UNCHANGED <<NUM, stdout, tempVars>>

\* Mutant of line 31: the brackets are put in front, init = ">" * (NUM + 1) + init.
CS_Line31_Prepends ==
    /\ pc = "l31"
    /\ init' = Repeat(<<">">>, NUM + 1) \o init
    /\ pc' = "l33"
    /\ UNCHANGED <<NUM, stdout, tempVars>>

\* init += ">" * (NUM + 1)
CS_Line31 ==
    /\ pc = "l31"
    /\ init' = init \o Repeat(<<">">>, NUM + 1)
    /\ pc' = "l33"
    /\ UNCHANGED <<NUM, stdout, tempVars>>

\* Mutant of line 33: two calls, print(init) and print("sink;").
CS_Line33_TwoPrints ==
    /\ pc = "l33"
    /\ stdout' = print(print(stdout, init), SinkSuffix)
    /\ pc' = "done"
    /\ UNCHANGED <<NUM, init, tempVars>>

\* print(init + "sink;")
CS_Line33 ==
    /\ pc = "l33"
    /\ stdout' = print(stdout, init \o SinkSuffix)
    /\ pc' = "done"
    /\ UNCHANGED <<NUM, init, tempVars>>

Next == CS_Line19 \/ CS_Line23 \/ CS_Line27 \/ CS_Line31 \/ CS_Line33

Spec == Init /\ [][Next]_vars

\* The interpreter runs the next statement as long as there is one.
FairSpec == Spec /\ WF_vars(Next)

(***************************************************************************)
(* temp.py: numbers and matrices.                                          *)
(*                                                                         *)
(* A float64 x is held as the integer x * FloatOne.  The random cells are  *)
(* multiples of 1/16 in [0, 1); products and sums of three products of     *)
(* such numbers are multiples of 1/256 below 3, which float64 holds        *)
(* exactly, so the arithmetic below is the arithmetic numpy performs on    *)
(* them.  An int64 n is held as n (FloatOne is 1 for an integer matrix).   *)
(***************************************************************************)
FloatOne == 16 * 16

\* One sample of np.random.rand(3, 3): nine cells in [0, 1).
Sample(s) ==
    [i \in 1..3 |-> [j \in 1..3 |->
        16 * (((2 * s + 1) * (3 * (i - 1) + j)) % 16)]]

\* The values np.random.rand(3, 3) takes in the model.
RandMatrices == {Sample(s) : s \in 0..MaxSeed}

\* x * y for two numbers held in units of 1/one.
Mul(x, y, one) == (x * y) \div one

\* u[1] * v[1] + ... + u[k] * v[k]
RECURSIVE DotUpTo(_, _, _, _)
DotUpTo(u, v, k, one) ==
    IF k = 0 THEN 0 ELSE DotUpTo(u, v, k - 1, one) + Mul(u[k], v[k], one)

Col(M, j) == [k \in 1..Len(M) |-> M[k][j]]

\* Mutant of @: the element-wise product, L * R.
MatMul_ElementWise(L, R, one) ==
    [i \in 1..Len(L) |-> [j \in 1..Len(L[i]) |-> Mul(L[i][j], R[i][j], one)]]

\* L @ R: the matrix product of numpy, row i of L by column j of R.
MatMul(L, R, one) ==
    [i \in 1..Len(L) |-> [j \in 1..Len(R[1]) |->
        DotUpTo(L[i], Col(R, j), Len(R), one)]]

\* The literal of lines 8-12.
Literal_a == << <<1, 2, 3>>,
                <<4, 5, 6>>,
                <<7, 8, 9>> >>

\* The literal of lines 14-18.
Literal_b == << <<10, 20, 30>>,
                <<40, 50, 60>>,
                <<70, 80, 90>> >>

(***************************************************************************)
(* temp.py: the statements.                                                *)
(***************************************************************************)
staticVars == <<NUM, init>>

\* The interpreter has imported numpy: no name of the script is bound.
InitTemp ==
    /\ pc = "l5"
    /\ A = Unbound /\ B = Unbound /\ a = Unbound /\ b = Unbound
    /\ stdout = <<>>
    /\ runs = <<>>
    /\ NUM = Unbound /\ init = Unbound

\* A = np.random.rand(3, 3)
T_Line5 ==
    /\ pc = "l5"
    /\ A' \in RandMatrices
    /\ pc' = "l6"
    /\ UNCHANGED <<B, a, b, stdout, runs, staticVars>>

\* B = np.random.rand(3, 3)
T_Line6 ==
    /\ pc = "l6"
    /\ B' \in RandMatrices
    /\ pc' = "l8"
    /\ UNCHANGED <<A, a, b, stdout, runs, staticVars>>

\* a = np.array([[1, 2, 3], [4, 5, 6], [7, 8, 9]])
T_Line8 ==
    /\ pc = "l8"
    /\ a' = Literal_a
    /\ pc' = "l14"
    /\ UNCHANGED <<A, B, b, stdout, runs, staticVars>>

\* b = np.array([[10, 20, 30], [40, 50, 60], [70, 80, 90]])
T_Line14 ==
    /\ pc = "l14"
    /\ b' = Literal_b
    /\ pc' = "l20"
    /\ UNCHANGED <<A, B, a, stdout, runs, staticVars>>

\* print(A)
T_Line20 ==
    /\ pc = "l20"
    /\ stdout' = print(stdout, A)
    /\ pc' = "l21"
    /\ UNCHANGED <<A, B, a, b, runs, staticVars>>

\* Mutant of line 21: the line above copied and not changed, print(A).
T_Line21_PrintsA ==
    /\ pc = "l21"
    /\ stdout' = print(stdout, A)
    /\ pc' = "l22"
    /\ UNCHANGED <<A, B, a, b, runs, staticVars>>

\* print(B)
T_Line21 ==
    /\ pc = "l21"
    /\ stdout' = print(stdout, B)
    /\ pc' = "l22"
    /\ UNCHANGED <<A, B, a, b, runs, staticVars>>

\* print(A @ B)
T_Line22 ==
    /\ pc = "l22"
    /\ stdout' = print(stdout, MatMul(A, B, FloatOne))
    /\ pc' = "l23"
    /\ UNCHANGED <<A, B, a, b, runs, staticVars>>

\* Mutant of line 23: the element-wise product, print(a * b).
T_Line23_ElementWise ==
    /\ pc = "l23"
    /\ stdout' = print(stdout, MatMul_ElementWise(a, b, 1))
    /\ pc' = "done"
    /\ UNCHANGED <<A, B, a, b, runs, staticVars>>

\* Mutant of line 23: a capital for a small letter, print(A @ b).
T_Line23_RandomOperand ==
    /\ pc = "l23"
    /\ stdout' = print(stdout, MatMul(A, b, 1))
    /\ pc' = "done"
    /\ UNCHANGED <<A, B, a, b, runs, staticVars>>

\* print(a @ b)
T_Line23 ==
    /\ pc = "l23"
    /\ stdout' = print(stdout, MatMul(a, b, 1))
    /\ pc' = "done"
    /\ UNCHANGED <<A, B, a, b, runs, staticVars>>

\* The script is run again, in a new interpreter: nothing of the run that
\* ended is kept.  runs records, for the comparison of runs, what each run
\* that ended had bound and written.
T_Rerun ==
    /\ pc = "done"
    /\ Len(runs) < MaxRuns - 1
    /\ runs' = Append(runs, [A |-> A, B |-> B, a |-> a, b |-> b, stdout |-> stdout])
    /\ A' = Unbound /\ B' = Unbound /\ a' = Unbound /\ b' = Unbound
    /\ stdout' = <<>>
    /\ pc' = "l5"
    /\ UNCHANGED staticVars

NextTemp ==
    \/ T_Line5 \/ T_Line6 \/ T_Line8 \/ T_Line14
    \/ T_Line20 \/ T_Line21 \/ T_Line22 \/ T_Line23
    \/ T_Rerun

SpecTemp == InitTemp /\ [][NextTemp]_vars

(***************************************************************************)
(* Properties of create_static.py.                                         *)
(***************************************************************************)
\* The number of positions of s that hold the character c.
Count(c, s) == Cardinality({i \in 1..Len(s) : s[i] = c})

\* The positions of s where a copy of t starts.
Occurrences(t, s) ==
    {i \in 1..(Len(s) - Len(t) + 1) : SubSeq(s, i, i + Len(t) - 1) = t}

EndsWith(s, t) ==
    /\ Len(s) >= Len(t)
    /\ SubSeq(s, Len(s) - Len(t) + 1, Len(s)) = t

\* C1: for every NUM >= 0 the printed string holds exactly NUM + 1 characters
\* '<' and exactly NUM + 1 characters '>', and it ends with "sink;".
C1_BalancedCounts ==
    pc = "done" =>
        /\ Len(stdout) = 1
        /\ Count("<", stdout[1]) = NUM + 1
        /\ Count(">", stdout[1]) = NUM + 1
        /\ EndsWith(stdout[1], <<"s", "i", "n", "k", ";">>)

C1_Witness ==
    /\ pc = "done"
    /\ NUM = 3
    /\ Count("<", stdout[1]) = 4
    /\ Count(">", stdout[1]) = 4

\* C2: for every NUM >= 0 the printed string is, position by position, SINK,
\* one '<', NUM times (MID then '<'), SOURCE, NUM + 1 times '>', and "sink;",
\* and nothing else: its length is the sum of the lengths of these parts.
C2_ExactLayout ==
    pc = "done" =>
        /\ Len(stdout) = 1
        /\ LET s    == stdout[1]
               unit == Len(MID) + 1
               base == Len(SINK) + 1
               src  == base + NUM * unit
               cls  == src + Len(SOURCE)
           IN  /\ Len(s) = cls + (NUM + 1) + 5
               /\ SubSeq(s, 1, Len(SINK)) = SINK
               /\ s[base] = "<"
               /\ \A k \in 0..(NUM - 1) :
                     /\ SubSeq(s, base + k * unit + 1, base + k * unit + Len(MID)) = MID
                     /\ s[base + (k + 1) * unit] = "<"
               /\ SubSeq(s, src + 1, cls) = SOURCE
               /\ \A k \in 1..(NUM + 1) : s[cls + k] = ">"
               /\ SubSeq(s, cls + NUM + 2, Len(s)) = <<"s", "i", "n", "k", ";">>

C2_Witness ==
    /\ pc = "done"
    /\ NUM = 2
    /\ Len(stdout[1]) = 11 + 2 * 15 + 11 + 3 + 5
    /\ Cardinality(Occurrences(MID, stdout[1])) = 2

\* C3: with NUM = 0 the output is exactly SinkModule<ConstModule>sink;
C3_NumZero ==
    (pc = "done" /\ NUM = 0) =>
        stdout = << <<"S", "i", "n", "k", "M", "o", "d", "u", "l", "e", "<",
                      "C", "o", "n", "s", "t", "M", "o", "d", "u", "l", "e", ">",
                      "s", "i", "n", "k", ";">> >>

C3_Witness ==
    /\ pc = "done"
    /\ NUM = 0
    /\ Len(stdout) = 1
    /\ Len(stdout[1]) = 28

\* C4: with NUM = 200, the value the source gives it, the output holds exactly
\* 201 '<' and exactly 201 '>', and ConstModule occurs exactly once, right after
\* the 201st '<'.
C4_Default200 ==
    (pc = "done" /\ NUM = 200) =>
        LET s == stdout[1]
        IN  /\ Count("<", s) = 201
            /\ Count(">", s) = 201
            /\ Cardinality(Occurrences(SOURCE, s)) = 1
            /\ \A p \in Occurrences(SOURCE, s) :
                  /\ p > 1
                  /\ s[p - 1] = "<"
                  /\ Cardinality({i \in 1..(p - 1) : s[i] = "<"}) = 201

C4_Witness ==
    /\ pc = "done"
    /\ NUM = NUM_DEFAULT
    /\ NUM_DEFAULT = 200
    /\ Occurrences(SOURCE, stdout[1]) # {}

\* C9: for every NUM >= 0 the run ends, having written to standard output
\* exactly once; nothing is written before the chain is complete with its
\* NUM + 1 closing brackets, and what is written is the chain followed by
\* "sink;".
C9_OneWriteAtTheEnd ==
    /\ [](Len(stdout) <= 1)
    /\ [](stdout # <<>> =>
            /\ pc = "done"
            /\ Count(">", init) = NUM + 1
            /\ EndsWith(init, <<">">>)
            /\ stdout[1] = init \o <<"s", "i", "n", "k", ";">>)
    /\ <>[](pc = "done" /\ Len(stdout) = 1)

C9_Witness ==
    /\ pc = "done"
    /\ NUM = 5
    /\ Len(stdout) = 1
    /\ stdout[1] = init \o <<"s", "i", "n", "k", ";">>

\* C10: for every NUM >= 0 the output is properly nested: every '<' is before
\* every '>', no prefix holds more '>' than '<', and the only position where
\* the two counts become equal is the last '>', which "sink;" follows directly.
C10_ProperlyNested ==
    pc = "done" =>
        LET s      == stdout[1]
            Opens  == {i \in 1..Len(s) : s[i] = "<"}
            Closes == {i \in 1..Len(s) : s[i] = ">"}
            Depth(p) == Cardinality({i \in Opens : i <= p})
                            - Cardinality({i \in Closes : i <= p})
        IN  /\ \A i \in Opens : \A j \in Closes : i < j
            /\ \A p \in 0..Len(s) : Depth(p) >= 0
            /\ \A p \in 1..Len(s) :
                  (Depth(p) = 0 /\ Depth(p - 1) # 0) =>
                      /\ s[p] = ">"
                      /\ \A j \in Closes : j <= p
                      /\ SubSeq(s, p + 1, Len(s)) = <<"s", "i", "n", "k", ";">>
            /\ \E p \in 1..Len(s) : Depth(p) = 0 /\ Depth(p - 1) # 0

C10_Witness ==
    /\ pc = "done"
    /\ NUM = 4
    /\ stdout[1][Len(stdout[1]) - 5] = ">"
    /\ stdout[1][Len(SINK) + 1] = "<"

(***************************************************************************)
(* Properties of temp.py.                                                  *)
(***************************************************************************)
\* Cell (i, j) of the row-by-column product of two 3x3 matrices.
Cell(L, R, i, j, one) ==
    (L[i][1] * R[1][j]) \div one
        + (L[i][2] * R[2][j]) \div one
        + (L[i][3] * R[3][j]) \div one

Is3x3(M) == Len(M) = 3 /\ \A i \in 1..3 : Len(M[i]) = 3

IsRowByCol(P, L, R, one) ==
    /\ Is3x3(P)
    /\ \A i \in 1..3 : \A j \in 1..3 : P[i][j] = Cell(L, R, i, j, one)

\* C5: the product of the two literal matrices that the script prints is
\* [[300,360,420],[660,810,960],[1020,1260,1500]], in integers.
C5_FixedProduct ==
    pc = "done" =>
        /\ Len(stdout) = 4
        /\ stdout[4] = << <<300, 360, 420>>,
                          <<660, 810, 960>>,
                          <<1020, 1260, 1500>> >>

C5_Witness ==
    /\ pc = "done"
    /\ a = << <<1, 2, 3>>, <<4, 5, 6>>, <<7, 8, 9>> >>
    /\ b = << <<10, 20, 30>>, <<40, 50, 60>>, <<70, 80, 90>> >>
    /\ stdout[4][3][3] = 1500

\* C6: each product the script prints, A @ B and a @ b, is a 3x3 matrix whose
\* cell (i, j) is the sum over k of left(i, k) * right(k, j).
C6_RowByColumn ==
    /\ Len(stdout) >= 3 => IsRowByCol(stdout[3], A, B, FloatOne)
    /\ Len(stdout) >= 4 => IsRowByCol(stdout[4], a, b, 1)

\* Both products are printed and neither is the element-wise product.
C6_Witness ==
    /\ Len(stdout) = 4
    /\ A # B
    /\ \E i \in 1..3 : \E j \in 1..3 :
          stdout[3][i][j] # (A[i][j] * B[i][j]) \div FloatOne
    /\ \E i \in 1..3 : \E j \in 1..3 : stdout[4][i][j] # a[i][j] * b[i][j]

\* C7: a run writes exactly four matrices, in this order: A, B, the product of
\* the A and B it printed, the product of the literal matrices; nothing is
\* written before A (line 20) and nothing after the product of the literals.
C7_FourInOrder ==
    /\ pc \in {"l5", "l6", "l8", "l14", "l20"} => stdout = <<>>
    /\ pc = "l21" => stdout = <<A>>
    /\ pc = "l22" => stdout = <<A, B>>
    /\ pc \in {"l23", "done"} =>
          /\ Len(stdout) = (IF pc = "done" THEN 4 ELSE 3)
          /\ stdout[1] = A
          /\ stdout[2] = B
          /\ IsRowByCol(stdout[3], stdout[1], stdout[2], FloatOne)
    /\ pc = "done" => IsRowByCol(stdout[4], Literal_a, Literal_b, 1)

C7_Witness ==
    /\ pc = "done"
    /\ Len(stdout) = 4
    /\ stdout[1] = A
    /\ stdout[2] = B
    /\ stdout[1] # stdout[2]

\* C8: in any two runs, whatever A and B each run drew, a, b and the printed
\* product of a and b are the same.
C8_FixedPartSameInAllRuns ==
    \A r \in 1..Len(runs) :
        /\ a # Unbound => a = runs[r].a
        /\ b # Unbound => b = runs[r].b
        /\ Len(stdout) = 4 => stdout[4] = runs[r].stdout[4]

\* A second run has ended whose A and B both differ from the first run's.
C8_Witness ==
    /\ pc = "done"
    /\ Len(runs) >= 1
    /\ A # runs[1].A
    /\ B # runs[1].B
    /\ stdout[1] # runs[1].stdout[1]
    /\ stdout[4] = runs[1].stdout[4]

====
